---- MODULE Spec2Model ----
(***************************************************************************)
(* Model of SFTPMail's folder queue (src/SFTP.py): the four local queue    *)
(* directories, the remote directory, and the calls send_to and            *)
(* receive_from taken step by step, together with the name helper          *)
(* _non_conflicting_name, the transforms _no_cryption and _PGP,            *)
(* test_connection, and the construction of the SFTP object with its       *)
(* setup of the working directory.                                         *)
(*                                                                         *)
(* A directory of the working directory that does not exist is not in the  *)
(* domain of fs.                                                           *)
(* A file name is a sequence of one-character strings, a path is the       *)
(* directory name, "/", and the file name (os.path.join), a file content   *)
(* is a sequence of lines, each line an integer.  A local file is its      *)
(* inode number with its content: os.rename moves the file, replacing an   *)
(* existing destination (POSIX); writing a new path makes a new file.      *)
(***************************************************************************)
EXTENDS Integers, Sequences, FiniteSets, TLC

VARIABLES
    fs,        \* local directory |-> (file name |-> [ino, data])
    inodes,    \* the last inode number given to a local file
    remote,    \* the remote directory: file name |-> content
    call,      \* per caller: position in, and locals of, its current call
    conn,      \* the callers holding an open Connection
    puts,      \* log of completed sftp.put: <<remote name, content>>
    ncalls,    \* per caller: number of calls started so far
    pgp,       \* TRUE iff the SFTP object was given a PGP object
    derived,   \* log of the paths derived by derive_and_create
    sftp,      \* the SFTP object: its construction and its setup checks
    regular    \* the names in the working directory that are regular files

vars == <<fs, inodes, remote, call, conn, puts, ncalls, pgp, derived, sftp, regular>>

-----------------------------------------------------------------------------
(* Bounds *)

MaxFiles == 2      \* files initially in Outbox, or on the remote
MaxCalls == 1      \* calls per caller and behaviour
MaxDerive == 3     \* derive-and-create repetitions per behaviour
MaxChecks == 1     \* calls of _check_if_setup after the construction

-----------------------------------------------------------------------------
(* Names, paths, partial functions *)

required_paths == {"Inbox", "Outbox", "Sent", "Awaiting"}

\* line 42: the list, in its order
required_paths_list == <<"Inbox", "Outbox", "Sent", "Awaiting">>

\* A content is a sequence of lines, a line <<n, k>> being the text of line n
\* without its first k characters: n > 0 is the decimal number n and a line
\* end, message_beginning_indicator the first line of a PGP message,
\* message_end_indicator its last one
Line(n) == <<n, 0>>
message_beginning_indicator == 0
message_end_indicator == -1

Digit(d) == <<"0", "1", "2", "3", "4", "5", "6", "7", "8", "9">>[d + 1]

\* str(iterator)
RECURSIVE Str(_)
Str(n) == IF n < 10 THEN <<Digit(n)>> ELSE Str(n \div 10) \o <<Digit(n % 10)>>

\* the characters of line n, the line end counted:
\* len("-----BEGIN PGP MESSAGE-----\n"), len("-----END PGP MESSAGE-----\n")
Bytes(n) ==
    CASE n = message_beginning_indicator -> 28
      [] n = message_end_indicator -> 26
      [] OTHER -> Len(Str(n)) + 1

\* the characters of a line
Width(line) == Bytes(line[1]) - line[2]

\* the characters of a content
RECURSIVE Size(_)
Size(c) == IF c = <<>> THEN 0 ELSE Width(Head(c)) + Size(Tail(c))

\* a content without its first k characters
RECURSIVE Skip(_, _)
Skip(c, k) ==
    IF c = <<>> \/ k = 0 THEN c
    ELSE IF Width(Head(c)) <= k THEN Skip(Tail(c), k - Width(Head(c)))
    ELSE << <<Head(c)[1], Head(c)[2] + k>> >> \o Tail(c)

\* the content of a file holding old after data is written at offset 0
Overlay(old, data) == data \o Skip(old, Size(data))

A == <<"a", ".", "t">>
A1 == <<"a", "_", "1", ".", "t">>
A2 == <<"a", "_", "2", ".", "t">>
B == <<"b", ".", "t">>
ATG == <<"a", ".", "t", ".", "g">>
README == <<"R">>
Names == {A, A1, B}

Callers == {1, 2}

Range(s) == {s[i] : i \in DOMAIN s}

Put(f, n, c) == [x \in (DOMAIN f) \cup {n} |-> IF x = n THEN c ELSE f[x]]
Del(f, n) == [x \in (DOMAIN f) \ {n} |-> f[x]]
Empty == [x \in {} |-> <<>>]

Perms(S) == {s \in [1..Cardinality(S) -> S] : \A x \in S : \E i \in DOMAIN s : s[i] = x}

\* os.path.join(directory, file_name)
Join(dir, name) == <<dir, "/">> \o name

\* os.path.basename(path): what follows the last "/"
RECURSIVE basename(_)
basename(path) ==
    IF \E i \in DOMAIN path : path[i] = "/"
    THEN basename(Tail(path))
    ELSE path

DirOf(path) == path[1]

IsPath(path) == Len(path) >= 2 /\ path[1] \in required_paths /\ path[2] = "/"

\* os.path.exists / os.path.isfile on the queue directories
Exists(F, path) ==
    /\ IsPath(path)
    /\ DirOf(path) \in DOMAIN F
    /\ basename(path) \in DOMAIN F[DirOf(path)]

ReadFile(F, path) == F[DirOf(path)][basename(path)]
\* open(path, "w").write(data), shutil.copy2(src, path), sftp.get(remote, path):
\* an existing file keeps its inode, a new one gets ino
WriteFile(F, path, data, ino) ==
    [F EXCEPT ![DirOf(path)] =
        Put(@, basename(path),
            [ino |-> IF Exists(F, path) THEN ReadFile(F, path).ino ELSE ino,
             data |-> data])]
RemoveFile(F, path) == [F EXCEPT ![DirOf(path)] = Del(@, basename(path))]
\* a write through an open file, from offset 0 and without truncating: the
\* file of that inode, wherever it has been moved to, gets the data over the
\* head of what it holds by now; nothing when the file has been removed or
\* replaced
WriteIno(F, ino, data) ==
    [d \in DOMAIN F |->
        [n \in DOMAIN F[d] |->
            IF F[d][n].ino = ino
            THEN [ino |-> ino, data |-> Overlay(F[d][n].data, data)]
            ELSE F[d][n]]]
\* a read through an open file: the data of the file of that inode, or the data
\* it had when it was opened (given) when it has been removed or replaced since
InoData(F, ino, given) ==
    IF \E d \in DOMAIN F : \E n \in DOMAIN F[d] : F[d][n].ino = ino
    THEN LET d == CHOOSE x \in DOMAIN F : \E n \in DOMAIN F[x] : F[x][n].ino = ino
             n == CHOOSE x \in DOMAIN F[d] : F[d][x].ino = ino
         IN F[d][n].data
    ELSE given
\* os.rename(src, dst), src existing
Rename(F, src, dst) ==
    LET G == RemoveFile(F, src)
    IN [G EXCEPT ![DirOf(dst)] = Put(@, basename(dst), ReadFile(F, src))]

-----------------------------------------------------------------------------
(* _non_conflicting_name *)


\* s.split(".")
RECURSIVE Split(_)
Split(s) ==
    IF \E i \in DOMAIN s : s[i] = "."
    THEN LET i == CHOOSE k \in DOMAIN s :
                     s[k] = "." /\ \A j \in 1..(k - 1) : s[j] # "."
         IN <<SubSeq(s, 1, i - 1)>> \o Split(SubSeq(s, i + 1, Len(s)))
    ELSE <<s>>

\* ".".join(parts)
RECURSIVE JoinDot(_)
JoinDot(parts) ==
    IF Len(parts) = 1 THEN parts[1]
    ELSE parts[1] \o <<".">> \o JoinDot(Tail(parts))

\* the path with "_<iterator>" added to its last "."-segment but one
file_path_try_last(file_path, iterator) ==
    LET file_path_split == Split(file_path)
        k == IF Len(file_path_split) = 1 THEN 1 ELSE Len(file_path_split) - 1
    IN JoinDot([file_path_split EXCEPT ![k] = @ \o <<"_">> \o Str(iterator)])

\* lines 255-257: the path with "_<iterator>" added to its first "."-segment
file_path_try(file_path, iterator) ==
    LET file_path_split == Split(file_path)
    IN JoinDot([file_path_split EXCEPT ![1] = @ \o <<"_">> \o Str(iterator)])

\* the first try taken without the check of line 260
NameLoop_unchecked(F, file_path, iterator) == file_path_try(file_path, iterator)

\* lines 251-262: the loop, entered with file_path existing
RECURSIVE NameLoop(_, _, _)
NameLoop(F, file_path, iterator) ==
    IF ~Exists(F, file_path_try(file_path, iterator))
    THEN file_path_try(file_path, iterator)
    ELSE NameLoop(F, file_path, iterator + 1)

\* the counter starting at 2
non_conflicting_name_from_2(F, destination_path, file_name) ==
    LET file_path == Join(destination_path, file_name)
    IN IF Exists(F, file_path) THEN NameLoop(F, file_path, 2) ELSE file_path

non_conflicting_name(F, destination_path, file_name) ==
    LET file_path == Join(destination_path, file_name)
    IN IF Exists(F, file_path) THEN NameLoop(F, file_path, 1) ELSE file_path

-----------------------------------------------------------------------------
(* PGP.encrypt / PGP.decrypt on contents *)


\* gnupg's armored output for a content: begin line, body, end line
GPGEncrypt(c) ==
    <<Line(message_beginning_indicator)>>
        \o [i \in DOMAIN c |-> <<c[i][1] + 100, c[i][2]>>]
        \o <<Line(message_end_indicator)>>
GPGDecrypt(c) == [i \in 1..(Len(c) - 2) |-> <<c[i + 1][1] - 100, c[i + 1][2]>>]

\* f.readlines(): every line with its line end
readlines(c) == [i \in DOMAIN c |-> <<c[i], "\n">>]

\* PGP.decrypt, per file
decrypt(c) ==
    IF <<Line(message_beginning_indicator)>> \notin Range(readlines(c))
    THEN c
    ELSE GPGDecrypt(c)

-----------------------------------------------------------------------------
(* The transforms, cryption_methods = {"None": _no_cryption, "PGP": _PGP} *)

cryption_methods == {"None", "PGP"}

dst_folder(encrypt_or_decrypt) ==
    IF encrypt_or_decrypt = "encrypt" THEN "Outbox" ELSE "Inbox"

-----------------------------------------------------------------------------
(* __init__ and the setup of the working directory *)

\* the answers typed at the prompt
Responses ==
    {<<"y">>, <<"Y">>, <<"n">>, <<"N">>, <<>>, <<"y", "e", "s">>, <<" ", "y">>}

\* str.lower()
lower(response) ==
    [i \in DOMAIN response |->
        CASE response[i] = "Y" -> "y"
          [] response[i] = "N" -> "n"
          [] OTHER -> response[i]]

\* line 271: os.listdir(), the names of the directories and of the regular
\* files of the working directory
listdir_cwd(F, G) == (DOMAIN F) \cup G

\* lines 272-274: for every required path, whether os.listdir() holds it
paths_in_folder(F, G) == [path \in required_paths |-> path \in listdir_cwd(F, G)]

\* a prompt that takes any answer beginning with y for a yes
prompt_new_setup_prefix(response) == response # <<>> /\ lower(response)[1] = "y"

\* _prompt_new_setup: TRUE iff the user says yes
prompt_new_setup(response) == ~(lower(response) # <<"y">>)

\* _find_missing_paths
find_missing_paths(in_folder) == {path \in required_paths : ~in_folder[path]}

\* _find_missing_paths, the list in the order of required_paths
paths_missing_list(in_folder) ==
    SelectSeq(required_paths_list, LAMBDA path : ~in_folder[path])

\* lines 345-348: os.makedirs(folder_missing); the FileExistsError of a name
\* that is taken, by a directory or by a regular file, is caught
makedirs(F, G, folder_missing) ==
    IF folder_missing \in listdir_cwd(F, G)
    THEN F
    ELSE [d \in (DOMAIN F) \cup {folder_missing} |->
             IF d \in DOMAIN F THEN F[d] ELSE Empty]

\* _setup(paths_missing, no_warning = True): os.makedirs for every missing
\* folder (no required path holds a ".")
RECURSIVE setup_list(_, _, _)
setup_list(F, G, folders_missing) ==
    IF folders_missing = <<>> THEN F
    ELSE setup_list(makedirs(F, G, Head(folders_missing)), G, Tail(folders_missing))

setup(F, G, paths_missing) ==
    setup_list(F, G, SelectSeq(required_paths_list, LAMBDA path : path \in paths_missing))

\* _check_if_setup: the working directory after it, what it returns ("None"
\* for the bare return of line 279), and whether it prompted
check_if_setup(F, G, response) ==
    IF \A path \in required_paths : paths_in_folder(F, G)[path]
    THEN [fs |-> F, result |-> "True", prompted |-> FALSE]
    ELSE IF ~prompt_new_setup(response)
         THEN [fs |-> F, result |-> "None", prompted |-> TRUE]
         ELSE [fs |-> setup(F, G, find_missing_paths(paths_in_folder(F, G))),
               result |-> "True", prompted |-> TRUE]

\* no _check_if_setup running on the constructed object; prompted and result
\* are those of the last one that ended
NoCheck ==
    [pc |-> "idle", prompted |-> FALSE, result |-> "none", folders_missing |-> <<>>]

\* no SFTP object yet; response, prompted and result record the
\* _check_if_setup of the construction, again the one called after it
NoObject(F) ==
    [state |-> "none", response |-> <<>>, prompted |-> FALSE, result |-> "none",
     before |-> F, rechecks |-> 0, again |-> NoCheck]

\* an SFTP object constructed in a working directory that is set up
Constructed(F) == [NoObject(F) EXCEPT !.state = "constructed", !.result = "True"]

\* lines 44-47: SFTP(connection_properties), with or without "host"; no call
\* of the object runs before it exists
construct(response, host) ==
    /\ sftp.state = "none"
    /\ LET r == check_if_setup(fs, regular, response)
       IN /\ fs' = r.fs
          /\ sftp' = [sftp EXCEPT !.state = IF host THEN "constructed" ELSE "failed",
                                  !.response = response, !.prompted = r.prompted,
                                  !.result = r.result, !.before = fs]
    /\ UNCHANGED <<inodes, remote, call, conn, puts, ncalls, pgp, derived, regular>>

\* the _check_if_setup called again has ended
check_ended(prompted, result) ==
    [sftp EXCEPT !.rechecks = @ + 1,
                 !.again = [NoCheck EXCEPT !.prompted = prompted, !.result = result]]

\* sftp._check_if_setup() called again on the constructed object, lines
\* 271-276: os.listdir(); with every required path listed it returns True,
\* with one missing it goes on to the prompt, the paths missing in this
\* listing being those that line 281 finds
check_again_listdir ==
    /\ sftp.state = "constructed"
    /\ sftp.rechecks < MaxChecks
    /\ sftp.again.pc = "idle"
    /\ LET in_folder == paths_in_folder(fs, regular)
       IN sftp' = IF \A path \in required_paths : in_folder[path]
                  THEN check_ended(FALSE, "True")
                  ELSE [sftp EXCEPT !.again =
                            [NoCheck EXCEPT !.pc = "prompt",
                                            !.folders_missing =
                                                paths_missing_list(in_folder)]]
    /\ UNCHANGED <<fs, inodes, remote, call, conn, puts, ncalls, pgp, derived, regular>>

\* lines 277-281, 298-302: input() returns the answer; declined, the check
\* returns None, accepted, it goes on to _setup
check_again_input(response) ==
    /\ sftp.again.pc = "prompt"
    /\ sftp' = IF ~prompt_new_setup(response)
               THEN check_ended(TRUE, "None")
               ELSE [sftp EXCEPT !.again.pc = "setup"]
    /\ UNCHANGED <<fs, inodes, remote, call, conn, puts, ncalls, pgp, derived, regular>>

\* lines 345-350, 284: one os.makedirs of _setup; after the last one the
\* check returns True
check_again_makedirs ==
    /\ sftp.again.pc = "setup"
    /\ fs' = makedirs(fs, regular, Head(sftp.again.folders_missing))
    /\ sftp' = IF Tail(sftp.again.folders_missing) = <<>>
               THEN check_ended(TRUE, "True")
               ELSE [sftp EXCEPT !.again.folders_missing = Tail(@)]
    /\ UNCHANGED <<inodes, remote, call, conn, puts, ncalls, pgp, derived, regular>>

\* sftp._check_if_setup() called again, step by step
check_again ==
    \/ check_again_listdir
    \/ \E response \in Responses : check_again_input(response)
    \/ check_again_makedirs

-----------------------------------------------------------------------------
(* Calls *)

\* pc, outcome, error, listing, opened (the Connections the call has opened) and
\* start record the call for the properties below;
\* the other fields are the locals of send_to and receive_from, with out_path,
\* content, src_ino and dst_ino those of the transform while it writes its file,
\* iterator and naming (the test to make next: the one of line 251 or the one
\* of line 260) those of _non_conflicting_name while a call derives a name,
\* outs, contents and idx the output paths, the contents read and the place in
\* fetched_files of the transform and the clean-up of receive_from
NoCall(F, R, n) ==
    [pc |-> "idle", op |-> "none", cryption_method |-> "None", listing |-> <<>>,
     file_names |-> <<>>, file_name |-> <<>>, awaiting_path |-> <<>>,
     file_to_send_path |-> <<>>, fetched_files |-> <<>>,
     decrypted_fetched_files |-> <<>>, outcome |-> "none", error |-> "none",
     opened |-> 0, out_path |-> <<>>, sent_path |-> <<>>, content |-> <<>>,
     src_ino |-> 0, dst_ino |-> 0, iterator |-> 0, naming |-> "while",
     outs |-> <<>>, contents |-> <<>>, idx |-> 0,
     start |-> [fs |-> F, remote |-> R, puts |-> n]]

\* the call's record at its start
began(op, cryption_method, F, R, n) ==
    [NoCall(F, R, n) EXCEPT !.pc = CASE op = "send_to" -> "s_list"
                                     [] op = "receive_from" -> "r_list"
                                     [] OTHER -> "t_body",
                            !.op = op, !.cryption_method = cryption_method,
                            !.outcome = "running"]

\* the call leaves by an exception
raised(c, why) == [c EXCEPT !.pc = "idle", !.outcome = "raised", !.error = why]

\* the call returns
returned(c) == [c EXCEPT !.pc = "idle", !.outcome = "returned"]

\* line 14: Connection(...) raises, the body of the with statement is not entered
connect_raise(c) == raised(c, "connect")

\* the Connection closed when the call returns, and left open by an exception
Step_no_exit(p, c) ==
    /\ call' = [call EXCEPT ![p] =
                    [c EXCEPT !.opened = IF p \notin conn /\ c.pc # "idle" THEN @ + 1 ELSE @]]
    /\ conn' = IF c.outcome = "returned" THEN conn \ {p} ELSE conn \cup {p}

\* lines 13-15: the Connection is a context manager around the call: it is
\* opened when the body is entered and closed when the body is left
Step(p, c) ==
    /\ call' = [call EXCEPT ![p] =
                    [c EXCEPT !.opened = IF p \notin conn /\ c.pc # "idle" THEN @ + 1 ELSE @]]
    /\ conn' = IF c.pc = "idle" THEN conn \ {p} ELSE conn \cup {p}

outbox_path(c) == Join("Outbox", c.file_name)

-----------------------------------------------------------------------------
(* send_to *)

\* line 14: the Connection is made and the body entered, or Connection(...) raises
send_to_begin(p, cryption_method) ==
    /\ sftp.state = "constructed"
    /\ call[p].pc = "idle"
    /\ ncalls[p] < MaxCalls
    /\ \E ok \in BOOLEAN :
          LET c == began("send_to", cryption_method, fs, remote, Len(puts))
          IN IF ok THEN Step(p, c) ELSE Step(p, connect_raise(c))
    /\ ncalls' = [ncalls EXCEPT ![p] = @ + 1]
    /\ UNCHANGED <<fs, inodes, remote, puts, pgp, derived, sftp, regular>>

\* line 147: os.listdir("Outbox"), in any order
send_to_listdir(p) ==
    /\ call[p].pc = "s_list"
    /\ IF "Outbox" \in DOMAIN fs
       THEN \E file_names \in Perms(DOMAIN fs["Outbox"]) :
                Step(p, [call[p] EXCEPT !.pc = "s_loop", !.listing = file_names,
                                        !.file_names = file_names])
       ELSE Step(p, raised(call[p], "listdir"))
    /\ UNCHANGED <<fs, inodes, remote, puts, ncalls, pgp, derived, sftp, regular>>

\* line 149 with no file left: the call returns
send_to_return(p) ==
    /\ call[p].pc = "s_loop"
    /\ call[p].file_names = <<>>
    /\ Step(p, returned(call[p]))
    /\ UNCHANGED <<fs, inodes, remote, puts, ncalls, pgp, derived, sftp, regular>>

\* lines 249-264, one os.path.exists of _non_conflicting_name as send_to runs
\* it: the test of line 251 (the path free: it is the name; taken: the
\* counter goes up), or the test of line 260 (the try free: it is the name;
\* taken: back to line 251). The name goes to the named local and the call to
\* found_pc, or the call waits at loop_pc for the next test
name_stat(F, c, destination_path, file_name, local, found_pc, loop_pc) ==
    LET file_path == Join(destination_path, file_name)
        found(path) == [c EXCEPT !.pc = found_pc, ![local] = path,
                                 !.iterator = 0, !.naming = "while"]
    IN IF c.naming = "while"
       THEN IF Exists(F, file_path)
            THEN [c EXCEPT !.pc = loop_pc, !.iterator = @ + 1, !.naming = "try"]
            ELSE found(file_path)
       ELSE IF ~Exists(F, file_path_try(file_path, c.iterator))
            THEN found(file_path_try(file_path, c.iterator))
            ELSE [c EXCEPT !.pc = loop_pc, !.naming = "while"]

\* lines 149-151: the next file, and the first test of its name in Awaiting
send_to_name(p) ==
    /\ call[p].pc = "s_loop"
    /\ call[p].file_names # <<>>
    /\ Step(p, name_stat(fs, [call[p] EXCEPT !.file_name = Head(call[p].file_names),
                                             !.file_names = Tail(call[p].file_names)],
                         "Awaiting", Head(call[p].file_names), "awaiting_path",
                         "s_rename", "s_name"))
    /\ UNCHANGED <<fs, inodes, remote, puts, ncalls, pgp, derived, sftp, regular>>

\* line 151: the further tests of the name in Awaiting
send_to_name_loop(p) ==
    /\ call[p].pc = "s_name"
    /\ Step(p, name_stat(fs, call[p], "Awaiting", call[p].file_name, "awaiting_path",
                         "s_rename", "s_name"))
    /\ UNCHANGED <<fs, inodes, remote, puts, ncalls, pgp, derived, sftp, regular>>

\* lines 153-157: os.rename(outbox_path, awaiting_path)
send_to_rename(p) ==
    /\ call[p].pc = "s_rename"
    /\ LET c == call[p]
       IN IF Exists(fs, outbox_path(c)) /\ "Awaiting" \in DOMAIN fs
          THEN /\ fs' = Rename(fs, outbox_path(c), c.awaiting_path)
               /\ Step(p, [c EXCEPT !.pc = "s_crypt", !.file_to_send_path = <<"temp">>])
          ELSE /\ fs' = fs
               /\ Step(p, raised(c, "rename"))
    /\ UNCHANGED <<inodes, remote, puts, ncalls, pgp, derived, sftp, regular>>

\* the locals of the transform dropped when it is left
transform_left(c) ==
    [c EXCEPT !.content = <<>>, !.src_ino = 0, !.dst_ino = 0, !.out_path = <<>>,
              !.outs = <<>>, !.contents = <<>>, !.idx = 0,
              !.iterator = 0, !.naming = "while"]

\* line 162, the transform entered: lines 85-94 of _PGP with lines 70-71 of
\* PGP.encrypt (the PGP object tested, the file opened for reading), lines
\* 118-126 of _no_cryption (the first test of the output name, or the transform
\* failing before it has made a file); a failure goes to the handler of line 168
send_to_crypt(p) ==
    /\ call[p].pc = "s_crypt"
    /\ LET c == call[p]
       IN \E ok \in BOOLEAN :
          IF c.cryption_method = "PGP"
          THEN IF pgp /\ Exists(fs, c.awaiting_path)
               THEN Step(p, [c EXCEPT !.pc = "s_read",
                                      !.src_ino = ReadFile(fs, c.awaiting_path).ino,
                                      !.content = ReadFile(fs, c.awaiting_path).data])
               ELSE Step(p, [c EXCEPT !.pc = "s_texc"])
          ELSE IF ok
               THEN Step(p, name_stat(fs, c, dst_folder("encrypt"),
                                      basename(c.awaiting_path), "out_path",
                                      "s_open_src", "s_out_name"))
               ELSE Step(p, [c EXCEPT !.pc = "s_texc"])
    /\ UNCHANGED <<fs, inodes, remote, puts, ncalls, pgp, derived, sftp, regular>>

\* lines 72-81 of PGP.encrypt: gnupg reads the open file and encrypts what it
\* read, or its result is not ok
send_to_read(p) ==
    /\ call[p].pc = "s_read"
    /\ LET c == call[p]
       IN \E ok \in BOOLEAN :
          IF ok
          THEN Step(p, [c EXCEPT !.pc = "s_out_name", !.src_ino = 0,
                                 !.content = GPGEncrypt(InoData(fs, c.src_ino, c.content))])
          ELSE Step(p, [transform_left(c) EXCEPT !.pc = "s_texc"])
    /\ UNCHANGED <<fs, inodes, remote, puts, ncalls, pgp, derived, sftp, regular>>

\* line 95 of _PGP, line 126 of _no_cryption: a test of the output name
send_to_out_name(p) ==
    /\ call[p].pc = "s_out_name"
    /\ Step(p, name_stat(fs, call[p], dst_folder("encrypt"),
                         basename(call[p].awaiting_path), "out_path",
                         IF call[p].cryption_method = "PGP" THEN "s_open"
                                                            ELSE "s_open_src",
                         "s_out_name"))
    /\ UNCHANGED <<fs, inodes, remote, puts, ncalls, pgp, derived, sftp, regular>>

\* shutil.copy2 of line 129: the source opened for reading
send_to_open_src(p) ==
    /\ call[p].pc = "s_open_src"
    /\ LET c == call[p]
       IN IF Exists(fs, c.awaiting_path)
          THEN Step(p, [c EXCEPT !.pc = "s_open",
                                 !.src_ino = ReadFile(fs, c.awaiting_path).ino,
                                 !.content = ReadFile(fs, c.awaiting_path).data])
          ELSE Step(p, [transform_left(c) EXCEPT !.pc = "s_texc"])
    /\ UNCHANGED <<fs, inodes, remote, puts, ncalls, pgp, derived, sftp, regular>>

\* the output file opened for writing: line 100 of _PGP, the destination of
\* shutil.copy2 of line 129; the file exists, empty
send_to_open(p) ==
    /\ call[p].pc = "s_open"
    /\ LET c == call[p]
       IN IF dst_folder("encrypt") \in DOMAIN fs
          THEN /\ fs' = WriteFile(fs, c.out_path, <<>>, inodes + 1)
               /\ inodes' = inodes + 1
               /\ Step(p, [c EXCEPT !.pc = "s_write",
                                    !.dst_ino = ReadFile(fs', c.out_path).ino])
          ELSE /\ UNCHANGED <<fs, inodes>>
               /\ Step(p, [transform_left(c) EXCEPT !.pc = "s_texc"])
    /\ UNCHANGED <<remote, puts, ncalls, pgp, derived, sftp, regular>>

\* the content written to the open file, wherever it is by now: line 101 of
\* _PGP (then lines 103, 163-165), the sendfile of shutil.copy2 from the open source
send_to_write(p) ==
    /\ call[p].pc = "s_write"
    /\ LET c == call[p]
       IN IF c.cryption_method = "PGP"
          THEN /\ fs' = WriteIno(fs, c.dst_ino, c.content)
               /\ Step(p, [transform_left(c) EXCEPT !.pc = "s_put",
                                                    !.file_to_send_path = c.out_path])
          ELSE /\ fs' = WriteIno(fs, c.dst_ino, InoData(fs, c.src_ino, c.content))
               /\ Step(p, [c EXCEPT !.pc = "s_stat", !.content = <<>>, !.src_ino = 0,
                                    !.dst_ino = 0])
    /\ UNCHANGED <<inodes, remote, puts, ncalls, pgp, derived, sftp, regular>>

\* copystat of shutil.copy2: os.stat(src)
send_to_stat(p) ==
    /\ call[p].pc = "s_stat"
    /\ LET c == call[p]
       IN IF Exists(fs, c.awaiting_path)
          THEN Step(p, [c EXCEPT !.pc = "s_utime"])
          ELSE Step(p, [transform_left(c) EXCEPT !.pc = "s_texc"])
    /\ UNCHANGED <<fs, inodes, remote, puts, ncalls, pgp, derived, sftp, regular>>

\* copystat of shutil.copy2: os.utime(dst)
send_to_utime(p) ==
    /\ call[p].pc = "s_utime"
    /\ LET c == call[p]
       IN IF Exists(fs, c.out_path)
          THEN Step(p, [c EXCEPT !.pc = "s_listxattr"])
          ELSE Step(p, [transform_left(c) EXCEPT !.pc = "s_texc"])
    /\ UNCHANGED <<fs, inodes, remote, puts, ncalls, pgp, derived, sftp, regular>>

\* copystat of shutil.copy2: os.listxattr(src); the files hold no extended
\* attribute, nothing is copied
send_to_listxattr(p) ==
    /\ call[p].pc = "s_listxattr"
    /\ LET c == call[p]
       IN IF Exists(fs, c.awaiting_path)
          THEN Step(p, [c EXCEPT !.pc = "s_chmod"])
          ELSE Step(p, [transform_left(c) EXCEPT !.pc = "s_texc"])
    /\ UNCHANGED <<fs, inodes, remote, puts, ncalls, pgp, derived, sftp, regular>>

\* copystat of shutil.copy2: os.chmod(dst); then lines 130, 163-165
send_to_chmod(p) ==
    /\ call[p].pc = "s_chmod"
    /\ LET c == call[p]
       IN IF Exists(fs, c.out_path)
          THEN Step(p, [transform_left(c) EXCEPT !.pc = "s_put",
                                                 !.file_to_send_path = c.out_path])
          ELSE Step(p, [transform_left(c) EXCEPT !.pc = "s_texc"])
    /\ UNCHANGED <<fs, inodes, remote, puts, ncalls, pgp, derived, sftp, regular>>

\* line 171: os.rename(awaiting_path, outbox_path); with the file gone the
\* rename raises in place of line 172, and nothing is moved
transform_except(F, c) ==
    IF Exists(F, c.awaiting_path)
    THEN Rename(F, c.awaiting_path, outbox_path(c))
    ELSE F

\* lines 168-172: the handler when the transform failed
send_to_transform_except(p) ==
    /\ call[p].pc = "s_texc"
    /\ fs' = transform_except(fs, call[p])
    /\ Step(p, raised(call[p], "transform"))
    /\ UNCHANGED <<inodes, remote, puts, ncalls, pgp, derived, sftp, regular>>

\* file_to_send_path[0]
first(file_to_send_path) == <<file_to_send_path[1]>>

\* the handler moving the file back under its Awaiting name
put_except_awaiting_name(F, c) ==
    IF Exists(F, c.awaiting_path)
    THEN Rename(F, c.awaiting_path, Join("Outbox", basename(c.awaiting_path)))
    ELSE F

\* lines 174-177: the handler when sftp.put failed
put_except(F, c) ==
    LET F1 == IF /\ first(c.file_to_send_path) # c.awaiting_path
                 /\ Exists(F, first(c.file_to_send_path))
              THEN RemoveFile(F, c.file_to_send_path)
              ELSE F
    IN IF Exists(F1, c.awaiting_path)
       THEN Rename(F1, c.awaiting_path, outbox_path(c))
       ELSE F1

\* the failure noted and the loop going on with the next file
put_raise_continue(c) == [c EXCEPT !.pc = "s_loop", !.error = "put"]

\* line 178: the exception leaves the loop and the call
put_raise(c) == raised(c, "put")

\* line 167: sftp.put; a failure goes to the handler of line 168
send_to_put(p) ==
    /\ call[p].pc = "s_put"
    /\ LET c == call[p]
       IN \E ok \in BOOLEAN :
          IF ok /\ Exists(fs, c.file_to_send_path)
          THEN /\ remote' = Put(remote, c.file_name, ReadFile(fs, c.file_to_send_path).data)
               /\ puts' = Append(puts, <<c.file_name, ReadFile(fs, c.file_to_send_path).data>>)
               /\ Step(p, [c EXCEPT !.pc = "s_clean"])
          ELSE /\ Step(p, [c EXCEPT !.pc = "s_pexc"])
               /\ UNCHANGED <<remote, puts>>
    /\ UNCHANGED <<fs, inodes, ncalls, pgp, derived, sftp, regular>>

\* lines 168, 174-178: the handler when sftp.put failed
send_to_put_except(p) ==
    /\ call[p].pc = "s_pexc"
    /\ fs' = put_except(fs, call[p])
    /\ Step(p, put_raise(call[p]))
    /\ UNCHANGED <<inodes, remote, puts, ncalls, pgp, derived, sftp, regular>>

\* line 181: os.path.isfile(file_to_send_path)
send_to_clean(p) ==
    /\ call[p].pc = "s_clean"
    /\ Step(p, [call[p] EXCEPT !.pc = IF Exists(fs, call[p].file_to_send_path)
                                      THEN "s_remove" ELSE "s_sent"])
    /\ UNCHANGED <<fs, inodes, remote, puts, ncalls, pgp, derived, sftp, regular>>

\* the created file left where it is
remove_created_skipped(F, file_to_send_path) == F

\* line 182: os.remove(file_to_send_path), the file existing
remove_created(F, file_to_send_path) == RemoveFile(F, file_to_send_path)

\* line 182
send_to_remove(p) ==
    /\ call[p].pc = "s_remove"
    /\ LET c == call[p]
       IN IF Exists(fs, c.file_to_send_path)
          THEN /\ fs' = remove_created(fs, c.file_to_send_path)
               /\ Step(p, [c EXCEPT !.pc = "s_sent"])
          ELSE /\ fs' = fs
               /\ Step(p, raised(c, "remove_created"))
    /\ UNCHANGED <<inodes, remote, puts, ncalls, pgp, derived, sftp, regular>>

\* line 185: a test of the file's name in Sent
send_to_sent_name(p) ==
    /\ call[p].pc = "s_sent"
    /\ Step(p, name_stat(fs, call[p], "Sent", call[p].file_name, "sent_path",
                         "s_sent_rename", "s_sent"))
    /\ UNCHANGED <<fs, inodes, remote, puts, ncalls, pgp, derived, sftp, regular>>

\* line 186: os.rename(awaiting_path, sent_path)
send_to_sent(p) ==
    /\ call[p].pc = "s_sent_rename"
    /\ LET c == call[p]
       IN IF Exists(fs, c.awaiting_path) /\ "Sent" \in DOMAIN fs
          THEN /\ fs' = Rename(fs, c.awaiting_path, c.sent_path)
               /\ Step(p, [c EXCEPT !.pc = "s_loop", !.sent_path = <<>>])
          ELSE /\ fs' = fs
               /\ Step(p, raised(c, "rename"))
    /\ UNCHANGED <<inodes, remote, puts, ncalls, pgp, derived, sftp, regular>>

send_to(p) ==
    \/ \E cryption_method \in cryption_methods : send_to_begin(p, cryption_method)
    \/ send_to_listdir(p)
    \/ send_to_name(p)
    \/ send_to_name_loop(p)
    \/ send_to_rename(p)
    \/ send_to_crypt(p)
    \/ send_to_read(p)
    \/ send_to_out_name(p)
    \/ send_to_open_src(p)
    \/ send_to_open(p)
    \/ send_to_write(p)
    \/ send_to_stat(p)
    \/ send_to_utime(p)
    \/ send_to_listxattr(p)
    \/ send_to_chmod(p)
    \/ send_to_transform_except(p)
    \/ send_to_put(p)
    \/ send_to_put_except(p)
    \/ send_to_clean(p)
    \/ send_to_remove(p)
    \/ send_to_sent_name(p)
    \/ send_to_sent(p)
    \/ send_to_return(p)

-----------------------------------------------------------------------------
(* receive_from *)

\* line 14: the Connection is made and the body entered, or Connection(...) raises
receive_from_begin(p, cryption_method) ==
    /\ sftp.state = "constructed"
    /\ call[p].pc = "idle"
    /\ ncalls[p] < MaxCalls
    /\ \E ok \in BOOLEAN :
          LET c == began("receive_from", cryption_method, fs, remote, Len(puts))
          IN IF ok THEN Step(p, c) ELSE Step(p, connect_raise(c))
    /\ ncalls' = [ncalls EXCEPT ![p] = @ + 1]
    /\ UNCHANGED <<fs, inodes, remote, puts, pgp, derived, sftp, regular>>

\* lines 202-203: sftp.listdir(remote_path), in any order, or raising
receive_from_listdir(p) ==
    /\ call[p].pc = "r_list"
    /\ \E ok \in BOOLEAN :
          IF ok
          THEN \E remote_files \in Perms(DOMAIN remote) :
                   Step(p, [call[p] EXCEPT !.pc = "r_loop", !.listing = remote_files,
                                           !.file_names = remote_files])
          ELSE Step(p, raised(call[p], "listdir"))
    /\ UNCHANGED <<fs, inodes, remote, puts, ncalls, pgp, derived, sftp, regular>>

\* line 208 raising, the exception swallowed and line 210 reached
get_raise_swallowed(c) == [c EXCEPT !.pc = "r_remove", !.error = "get"]

\* line 208 raising, the failure noted and the loop going on with the next file
get_raise_continue(c) == [c EXCEPT !.pc = "r_loop", !.error = "get"]

\* line 208 raising: the exception leaves the loop and the call
get_raise(c) == raised(c, "get")

\* lines 204-207: the next file, and the first test of its name in Awaiting
receive_from_name(p) ==
    /\ call[p].pc = "r_loop"
    /\ call[p].file_names # <<>>
    /\ Step(p, name_stat(fs, [call[p] EXCEPT !.file_name = Head(call[p].file_names),
                                             !.file_names = Tail(call[p].file_names)],
                         "Awaiting", Head(call[p].file_names), "awaiting_path",
                         "r_get", "r_name"))
    /\ UNCHANGED <<fs, inodes, remote, puts, ncalls, pgp, derived, sftp, regular>>

\* line 207: the further tests of the name in Awaiting
receive_from_name_loop(p) ==
    /\ call[p].pc = "r_name"
    /\ Step(p, name_stat(fs, call[p], "Awaiting", call[p].file_name, "awaiting_path",
                         "r_get", "r_name"))
    /\ UNCHANGED <<fs, inodes, remote, puts, ncalls, pgp, derived, sftp, regular>>

\* lines 208-209: sftp.get(remote_file_path, local_path)
receive_from_get(p) ==
    /\ call[p].pc = "r_get"
    /\ LET c == call[p]
           local_path == c.awaiting_path
       IN \E ok \in BOOLEAN :
          IF ok /\ c.file_name \in DOMAIN remote /\ "Awaiting" \in DOMAIN fs
          THEN /\ fs' = WriteFile(fs, local_path, remote[c.file_name], inodes + 1)
               /\ inodes' = inodes + 1
               /\ Step(p, [c EXCEPT !.pc = "r_remove", !.awaiting_path = <<>>,
                                    !.fetched_files = Append(@, local_path)])
          ELSE /\ UNCHANGED <<fs, inodes>>
               /\ Step(p, get_raise([c EXCEPT !.awaiting_path = <<>>]))
    /\ UNCHANGED <<remote, puts, ncalls, pgp, derived, sftp, regular>>

\* line 210
receive_from_remove(p) ==
    /\ call[p].pc = "r_remove"
    /\ LET c == call[p]
       IN \E ok \in BOOLEAN :
          IF ok /\ c.file_name \in DOMAIN remote
          THEN /\ remote' = Del(remote, c.file_name)
               /\ Step(p, [c EXCEPT !.pc = "r_loop"])
          ELSE /\ remote' = remote
               /\ Step(p, raised(c, "remove"))
    /\ UNCHANGED <<fs, inodes, puts, ncalls, pgp, derived, sftp, regular>>

\* the transform of line 213 raises: the exception leaves the call
crypt_raise(c) == raised(transform_left(c), "transform")

\* the transform of line 213 returns its output paths
crypt_return(c) ==
    [transform_left(c) EXCEPT !.pc = "r_clean", !.idx = 1,
                              !.decrypted_fetched_files = c.outs]

\* lines 98, 126: an output name found joins the list; the next name is
\* derived, or, after the last one, the first output file is made (line 100 of
\* _PGP, line 129 of _no_cryption)
out_named(c) ==
    IF c.pc # "r_named" THEN c
    ELSE LET d == [c EXCEPT !.outs = Append(@, c.out_path), !.out_path = <<>>]
         IN IF d.idx < Len(d.fetched_files)
            THEN [d EXCEPT !.pc = "r_out_name", !.idx = d.idx + 1]
            ELSE [d EXCEPT !.idx = 1,
                           !.pc = IF d.cryption_method = "PGP" THEN "r_open"
                                                              ELSE "r_open_src"]

\* line 213, the transform entered. _PGP: line 85-86, then line 97 with lines
\* 122-123 of PGP.decrypt, the first fetched file opened for reading.
\* _no_cryption: lines 118-126, the first test of the first output name.
\* With nothing fetched the transform returns an empty list
receive_from_crypt(p) ==
    /\ call[p].pc = "r_loop"
    /\ call[p].file_names = <<>>
    /\ LET c == [call[p] EXCEPT !.idx = 1]
       IN IF c.cryption_method = "PGP"
          THEN IF ~pgp THEN Step(p, crypt_raise(c))
               ELSE IF c.fetched_files = <<>> THEN Step(p, crypt_return(c))
               ELSE IF Exists(fs, c.fetched_files[1])
                    THEN Step(p, [c EXCEPT !.pc = "r_read",
                                           !.src_ino = ReadFile(fs, c.fetched_files[1]).ino])
                    ELSE Step(p, crypt_raise(c))
          ELSE IF c.fetched_files = <<>> THEN Step(p, crypt_return(c))
               ELSE Step(p, out_named(name_stat(fs, c, dst_folder("decrypt"),
                                                basename(c.fetched_files[1]),
                                                "out_path", "r_named", "r_out_name")))
    /\ UNCHANGED <<fs, inodes, remote, puts, ncalls, pgp, derived, sftp, regular>>

\* lines 125-146 of PGP.decrypt: the open file read and, taken for a PGP
\* message, decrypted; then the next fetched file, or line 98 of _PGP
receive_from_read(p) ==
    /\ call[p].pc = "r_read"
    /\ LET c == call[p]
           read == [c EXCEPT !.contents = Append(@, decrypt(InoData(fs, c.src_ino, <<>>))),
                             !.src_ino = 0]
       IN IF c.idx < Len(c.fetched_files)
          THEN Step(p, [read EXCEPT !.pc = "r_open_read", !.idx = c.idx + 1])
          ELSE Step(p, [read EXCEPT !.pc = "r_out_name", !.idx = 1])
    /\ UNCHANGED <<fs, inodes, remote, puts, ncalls, pgp, derived, sftp, regular>>

\* line 123 of PGP.decrypt: the next fetched file opened for reading
receive_from_open_read(p) ==
    /\ call[p].pc = "r_open_read"
    /\ LET c == call[p]
       IN IF Exists(fs, c.fetched_files[c.idx])
          THEN Step(p, [c EXCEPT !.pc = "r_read",
                                 !.src_ino = ReadFile(fs, c.fetched_files[c.idx]).ino])
          ELSE Step(p, crypt_raise(c))
    /\ UNCHANGED <<fs, inodes, remote, puts, ncalls, pgp, derived, sftp, regular>>

\* line 98 of _PGP, line 126 of _no_cryption: a test of an output name
receive_from_out_name(p) ==
    /\ call[p].pc = "r_out_name"
    /\ Step(p, out_named(name_stat(fs, call[p], dst_folder("decrypt"),
                                   basename(call[p].fetched_files[call[p].idx]),
                                   "out_path", "r_named", "r_out_name")))
    /\ UNCHANGED <<fs, inodes, remote, puts, ncalls, pgp, derived, sftp, regular>>

\* shutil.copy2 of line 129: the source opened for reading
receive_from_open_src(p) ==
    /\ call[p].pc = "r_open_src"
    /\ LET c == call[p]
       IN IF Exists(fs, c.fetched_files[c.idx])
          THEN Step(p, [c EXCEPT !.pc = "r_open",
                                 !.src_ino = ReadFile(fs, c.fetched_files[c.idx]).ino])
          ELSE Step(p, crypt_raise(c))
    /\ UNCHANGED <<fs, inodes, remote, puts, ncalls, pgp, derived, sftp, regular>>

\* the output file opened for writing: line 100 of _PGP, the destination of
\* shutil.copy2 of line 129; the file exists, empty
receive_from_open(p) ==
    /\ call[p].pc = "r_open"
    /\ LET c == call[p]
       IN IF dst_folder("decrypt") \in DOMAIN fs
          THEN /\ fs' = WriteFile(fs, c.outs[c.idx], <<>>, inodes + 1)
               /\ inodes' = inodes + 1
               /\ Step(p, [c EXCEPT !.pc = "r_write",
                                    !.dst_ino = ReadFile(fs', c.outs[c.idx]).ino])
          ELSE /\ UNCHANGED <<fs, inodes>>
               /\ Step(p, crypt_raise(c))
    /\ UNCHANGED <<remote, puts, ncalls, pgp, derived, sftp, regular>>

\* the next output file, or the return of the transform
crypt_next(c) ==
    IF c.idx < Len(c.fetched_files)
    THEN [c EXCEPT !.idx = c.idx + 1, !.src_ino = 0, !.dst_ino = 0,
                   !.pc = IF c.cryption_method = "PGP" THEN "r_open" ELSE "r_open_src"]
    ELSE crypt_return(c)

\* the content written to the open file: line 101 of _PGP (then the next file,
\* or line 103), the sendfile of shutil.copy2 from the open source
receive_from_write(p) ==
    /\ call[p].pc = "r_write"
    /\ LET c == call[p]
       IN IF c.cryption_method = "PGP"
          THEN /\ fs' = WriteIno(fs, c.dst_ino, c.contents[c.idx])
               /\ Step(p, crypt_next(c))
          ELSE /\ fs' = WriteIno(fs, c.dst_ino, InoData(fs, c.src_ino, <<>>))
               /\ Step(p, [c EXCEPT !.pc = "r_stat", !.src_ino = 0, !.dst_ino = 0])
    /\ UNCHANGED <<inodes, remote, puts, ncalls, pgp, derived, sftp, regular>>

\* copystat of shutil.copy2: os.stat(src)
receive_from_stat(p) ==
    /\ call[p].pc = "r_stat"
    /\ LET c == call[p]
       IN IF Exists(fs, c.fetched_files[c.idx])
          THEN Step(p, [c EXCEPT !.pc = "r_utime"])
          ELSE Step(p, crypt_raise(c))
    /\ UNCHANGED <<fs, inodes, remote, puts, ncalls, pgp, derived, sftp, regular>>

\* copystat of shutil.copy2: os.utime(dst)
receive_from_utime(p) ==
    /\ call[p].pc = "r_utime"
    /\ LET c == call[p]
       IN IF Exists(fs, c.outs[c.idx])
          THEN Step(p, [c EXCEPT !.pc = "r_listxattr"])
          ELSE Step(p, crypt_raise(c))
    /\ UNCHANGED <<fs, inodes, remote, puts, ncalls, pgp, derived, sftp, regular>>

\* copystat of shutil.copy2: os.listxattr(src)
receive_from_listxattr(p) ==
    /\ call[p].pc = "r_listxattr"
    /\ LET c == call[p]
       IN IF Exists(fs, c.fetched_files[c.idx])
          THEN Step(p, [c EXCEPT !.pc = "r_chmod"])
          ELSE Step(p, crypt_raise(c))
    /\ UNCHANGED <<fs, inodes, remote, puts, ncalls, pgp, derived, sftp, regular>>

\* copystat of shutil.copy2: os.chmod(dst); then the next file, or line 130
receive_from_chmod(p) ==
    /\ call[p].pc = "r_chmod"
    /\ LET c == call[p]
       IN IF Exists(fs, c.outs[c.idx])
          THEN Step(p, crypt_next(c))
          ELSE Step(p, crypt_raise(c))
    /\ UNCHANGED <<fs, inodes, remote, puts, ncalls, pgp, derived, sftp, regular>>

\* lines 216-218: one os.remove of a fetched file; after the last one, or with
\* nothing fetched, the call returns
receive_from_clean(p) ==
    /\ call[p].pc = "r_clean"
    /\ LET c == call[p]
       IN IF c.fetched_files = <<>>
          THEN /\ fs' = fs
               /\ Step(p, returned([c EXCEPT !.idx = 0]))
          ELSE IF Exists(fs, c.fetched_files[c.idx])
               THEN /\ fs' = RemoveFile(fs, c.fetched_files[c.idx])
                    /\ Step(p, IF c.idx = Len(c.fetched_files)
                               THEN returned([c EXCEPT !.idx = 0])
                               ELSE [c EXCEPT !.idx = c.idx + 1])
               ELSE /\ fs' = fs
                    /\ Step(p, raised([c EXCEPT !.idx = 0], "clean"))
    /\ UNCHANGED <<inodes, remote, puts, ncalls, pgp, derived, sftp, regular>>

receive_from(p) ==
    \/ \E cryption_method \in cryption_methods : receive_from_begin(p, cryption_method)
    \/ receive_from_listdir(p)
    \/ receive_from_name(p)
    \/ receive_from_name_loop(p)
    \/ receive_from_get(p)
    \/ receive_from_remove(p)
    \/ receive_from_crypt(p)
    \/ receive_from_read(p)
    \/ receive_from_open_read(p)
    \/ receive_from_out_name(p)
    \/ receive_from_open_src(p)
    \/ receive_from_open(p)
    \/ receive_from_write(p)
    \/ receive_from_stat(p)
    \/ receive_from_utime(p)
    \/ receive_from_listxattr(p)
    \/ receive_from_chmod(p)
    \/ receive_from_clean(p)

-----------------------------------------------------------------------------
(* test_connection *)

\* lines 226-229 with line 14: test_func is entered with the Connection open;
\* lines 231-234: Connection(...) raised, the result is {"OK": False}
test_connection_begin(p) ==
    /\ sftp.state = "constructed"
    /\ call[p].pc = "idle"
    /\ ncalls[p] < MaxCalls
    /\ \E ok \in BOOLEAN :
          LET c == began("test_connection", "None", fs, remote, Len(puts))
          IN IF ok
             THEN Step(p, c)
             ELSE Step(p, [returned(c) EXCEPT !.error = "connect"])
    /\ ncalls' = [ncalls EXCEPT ![p] = @ + 1]
    /\ UNCHANGED <<fs, inodes, remote, puts, pgp, derived, sftp, regular>>

\* lines 224, 229-230: test_func returns, the result is {"OK": True}
test_connection_return(p) ==
    /\ call[p].pc = "t_body"
    /\ Step(p, returned(call[p]))
    /\ UNCHANGED <<fs, inodes, remote, puts, ncalls, pgp, derived, sftp, regular>>

test_connection(p) ==
    \/ test_connection_begin(p)
    \/ test_connection_return(p)

-----------------------------------------------------------------------------
(* Initial states and specifications *)

NameIndex(n) == CASE n = A -> 1 [] n = A1 -> 2 [] n = A2 -> 3 [] OTHER -> 4

\* a directory holding the files named in S, every file with a content of its own
Filled(S, base) ==
    [n \in S |-> [ino |-> base + NameIndex(n), data |-> <<Line(base + NameIndex(n))>>]]

\* a remote directory holding the files named in S
FilledRemote(S, base) == [n \in S |-> <<Line(base + NameIndex(n))>>]

\* a remote directory holding the files named in S, PGP messages
ArmoredRemote(S, base) == [n \in S |-> GPGEncrypt(<<Line(base + NameIndex(n))>>)]

UpTo(S, k) == {T \in SUBSET S : Cardinality(T) <= k}

\* the queue before a batch is sent: files in Outbox, leftovers in Awaiting and Sent
InitSend ==
    /\ \E outbox \in UpTo(Names, MaxFiles), awaiting \in SUBSET {A, A1},
          sent \in SUBSET {A} :
          fs = [d \in required_paths |->
                   CASE d = "Outbox" -> Filled(outbox, 10)
                     [] d = "Awaiting" -> Filled(awaiting, 20)
                     [] d = "Sent" -> Filled(sent, 30)
                     [] OTHER -> Empty]
    /\ remote = Empty

\* the queue before a batch is received: files on the remote, leftovers in
\* Awaiting and Inbox
InitReceive ==
    /\ \E awaiting \in SUBSET {A, A1}, inbox \in SUBSET {A, A1} :
          fs = [d \in required_paths |->
                   CASE d = "Awaiting" -> Filled(awaiting, 20)
                     [] d = "Inbox" -> Filled(inbox, 40)
                     [] OTHER -> Empty]
    /\ \E r \in UpTo(Names, MaxFiles), armored \in BOOLEAN :
          remote = IF armored THEN ArmoredRemote(r, 50) ELSE FilledRemote(r, 50)

Init ==
    /\ InitSend \/ InitReceive
    /\ call = [p \in Callers |-> NoCall(fs, remote, 0)]
    /\ inodes = 100
    /\ conn = {}
    /\ puts = <<>>
    /\ ncalls = [p \in Callers |-> 0]
    /\ pgp \in BOOLEAN
    /\ derived = <<>>
    /\ sftp = Constructed(fs)
    /\ regular = {}

\* one caller, one call after the other
Next == send_to(1) \/ receive_from(1) \/ test_connection(1)

Spec == Init /\ [][Next]_vars

-----------------------------------------------------------------------------
(* Two send_to calls at once on the same queue directories *)

InitConcurrent ==
    /\ \E outbox \in UpTo({A, A1}, MaxFiles) :
          fs = [d \in required_paths |->
                   IF d = "Outbox" THEN Filled(outbox, 10) ELSE Empty]
    /\ remote = Empty
    /\ call = [p \in Callers |-> NoCall(fs, remote, 0)]
    /\ inodes = 100
    /\ conn = {}
    /\ puts = <<>>
    /\ ncalls = [p \in Callers |-> 0]
    /\ pgp = TRUE
    /\ derived = <<>>
    /\ sftp = Constructed(fs)
    /\ regular = {}

NextConcurrent == \E p \in Callers : send_to(p)

SpecConcurrent == InitConcurrent /\ [][NextConcurrent]_vars

-----------------------------------------------------------------------------
(* The SFTP object constructed in a working directory that holds any of the
   required directories, and then used *)

\* the required names that a regular file may bear at the start
RegularNames == {"Sent"}

\* files to send, or files to receive (one file also into an Awaiting that
\* holds its name, several files into a complete layout)
InitSetup ==
    /\ \E present \in SUBSET required_paths, outbox \in SUBSET {A},
          awaiting \in SUBSET {A}, r \in UpTo({A, A1}, MaxFiles) :
          /\ r = {} \/ (outbox = {} /\ (awaiting = {} \/ r = {A}))
          /\ Cardinality(r) <= 1 \/ present = required_paths
          /\ fs = [d \in present |-> CASE d = "Outbox" -> Filled(outbox, 10)
                                       [] d = "Awaiting" -> Filled(awaiting, 20)
                                       [] OTHER -> Empty]
          /\ remote = FilledRemote(r, 50)
    /\ call = [p \in Callers |-> NoCall(fs, remote, 0)]
    /\ inodes = 100
    /\ conn = {}
    /\ puts = <<>>
    /\ ncalls = [p \in Callers |-> 0]
    /\ pgp = TRUE
    /\ derived = <<>>
    /\ sftp = NoObject(fs)
    /\ \E G \in SUBSET (RegularNames \ DOMAIN fs) : regular = G

NextSetup ==
    \/ \E response \in Responses, host \in BOOLEAN : construct(response, host)
    \/ check_again
    \/ send_to(1)
    \/ receive_from(1)
    \/ test_connection(1)

SpecSetup == InitSetup /\ [][NextSetup]_vars

-----------------------------------------------------------------------------
(* _non_conflicting_name applied again and again: derive a path, create the file *)

DeriveDirs == {"Inbox", "Awaiting"}
DeriveNames == {A, A1, ATG, README}

derive_and_create(destination_path, file_name) ==
    /\ Len(derived) < MaxDerive
    /\ LET path == non_conflicting_name(fs, destination_path, file_name)
       IN /\ derived' = Append(derived, [dir |-> destination_path, name |-> file_name,
                                         path |-> path, existed |-> Exists(fs, path)])
          /\ fs' = WriteFile(fs, path, <<>>, inodes + 1)
    /\ inodes' = inodes + 1
    /\ UNCHANGED <<remote, call, conn, puts, ncalls, pgp, sftp, regular>>

InitNames ==
    /\ \E inbox \in SUBSET {A, A1, A2, README}, awaiting \in SUBSET {A} :
          fs = [d \in required_paths |->
                   CASE d = "Inbox" -> Filled(inbox, 40)
                     [] d = "Awaiting" -> Filled(awaiting, 20)
                     [] OTHER -> Empty]
    /\ remote = Empty
    /\ call = [p \in Callers |-> NoCall(fs, remote, 0)]
    /\ inodes = 100
    /\ conn = {}
    /\ puts = <<>>
    /\ ncalls = [p \in Callers |-> 0]
    /\ pgp = FALSE
    /\ derived = <<>>
    /\ sftp = Constructed(fs)
    /\ regular = {}

NextNames ==
    \E destination_path \in DeriveDirs, file_name \in DeriveNames :
        derive_and_create(destination_path, file_name)

SpecNames == InitNames /\ [][NextNames]_vars

-----------------------------------------------------------------------------
(* Properties *)

Inodes(F, d) == {F[d][n].ino : n \in DOMAIN F[d]}

\* the call of p has ended, or failed, at the file call[p].file_name
SendFailed(p) == call[p].op = "send_to" /\ call[p].error \in {"put", "transform"}
GetFailed(p) == call[p].op = "receive_from" /\ call[p].error = "get"

\* the place in the listing of the file the call is at
Position(c) == Len(c.listing) - Len(c.file_names)

\* C1: after a send_to that returns, every file of the Outbox snapshot is in
\* Sent (the same file, with its content), Outbox is empty and Awaiting holds
\* what it held before the call: neither an original nor an upload copy is left.
C1_SentAfterSuccess ==
    \A p \in Callers :
        (call[p].op = "send_to" /\ call[p].outcome = "returned") =>
            LET S == call[p].start.fs
            IN /\ \A n \in DOMAIN S["Outbox"] :
                      \E m \in DOMAIN fs["Sent"] : fs["Sent"][m] = S["Outbox"][n]
               /\ DOMAIN fs["Outbox"] = {}
               /\ fs["Awaiting"] = S["Awaiting"]

C1_Witness ==
    \E p \in Callers :
        /\ call[p].op = "send_to" /\ call[p].outcome = "returned"
        /\ call[p].cryption_method = "PGP"
        /\ Cardinality(DOMAIN call[p].start.fs["Outbox"]) = 2
        /\ DOMAIN call[p].start.fs["Awaiting"] # {}

\* C2: when sftp.put fails, the file is back in Outbox under the name it had at
\* the start of the call, the same file with its content, and is neither in
\* Awaiting nor in Sent.
C2_UploadFailureRollsBack ==
    \A p \in Callers :
        (call[p].op = "send_to" /\ call[p].error = "put") =>
            LET S == call[p].start.fs
                n == call[p].file_name
            IN /\ n \in DOMAIN fs["Outbox"]
               /\ fs["Outbox"][n] = S["Outbox"][n]
               /\ S["Outbox"][n].ino \notin Inodes(fs, "Awaiting") \cup Inodes(fs, "Sent")

C2_Witness ==
    \E p \in Callers :
        /\ call[p].op = "send_to" /\ call[p].error = "put"
        /\ call[p].awaiting_path # Join("Awaiting", call[p].file_name)

\* C3 as stated: a failing file does not stop the batch, every other file of
\* the snapshot is still attempted, so that a call that had a failure ends
\* with no file of its listing left unattempted.
C3_BatchContinuesAfterFailure ==
    \A p \in Callers :
        (SendFailed(p) /\ call[p].pc = "idle") => call[p].file_names = <<>>

\* C3 amended: a failing file (transform or upload) ends the call by an
\* exception: the files listed after it are not attempted (they stay in Outbox
\* untouched and nothing is uploaded for them), the failing file is back in
\* Outbox, the files listed before it are in Sent, and Awaiting is as before
\* the call; with nothing in Awaiting before the call, Outbox then holds the
\* failing file and the files listed after it, and nothing else.
C3_FailureEndsBatch ==
    \A p \in Callers :
        SendFailed(p) =>
            LET c == call[p]
                S == c.start.fs
                k == Position(c)
            IN /\ c.pc = "idle" /\ c.outcome = "raised"
               /\ \A i \in k..Len(c.listing) :
                      /\ c.listing[i] \in DOMAIN fs["Outbox"]
                      /\ fs["Outbox"][c.listing[i]] = S["Outbox"][c.listing[i]]
               /\ \A i \in (k + 1)..Len(c.listing) :
                      \A j \in (c.start.puts + 1)..Len(puts) : puts[j][1] # c.listing[i]
               /\ \A i \in 1..(k - 1) :
                      S["Outbox"][c.listing[i]].ino \in Inodes(fs, "Sent")
               /\ fs["Awaiting"] = S["Awaiting"]
               /\ DOMAIN S["Awaiting"] = {} =>
                      DOMAIN fs["Outbox"] = {c.listing[i] : i \in k..Len(c.listing)}

C3_Witness ==
    \E p \in Callers :
        /\ SendFailed(p) /\ call[p].error = "put"
        /\ DOMAIN call[p].start.fs["Outbox"] = {A, B}
        /\ call[p].file_name = A
        /\ call[p].file_names = <<B>>

\* C4: a step that removes a file from the remote is line 210 of a
\* receive_from whose sftp.get of that file has completed: the local file,
\* the last of fetched_files, is in Awaiting with the remote file's content,
\* before and after the removal.
C4_RemoveOnlyAfterGet ==
    [][\A n \in DOMAIN remote :
          n \notin DOMAIN remote' =>
              \E p \in Callers :
                  /\ call[p].pc = "r_remove" /\ call[p].file_name = n
                  /\ call[p].fetched_files # <<>>
                  /\ LET local_path == call[p].fetched_files[Len(call[p].fetched_files)]
                     IN /\ DirOf(local_path) = "Awaiting"
                        /\ Exists(fs, local_path)
                        /\ ReadFile(fs, local_path).data = remote[n]
                        /\ Exists(fs', local_path)]_vars

\* a download failed after another file was downloaded and removed
C4_Witness ==
    \E p \in Callers :
        /\ GetFailed(p)
        /\ Len(call[p].fetched_files) = 1
        /\ call[p].listing[1] \notin DOMAIN remote
        /\ call[p].file_name \in DOMAIN remote

\* C5: a receive_from that returns gives as many Inbox paths as files were
\* listed, pairwise distinct, none of them a path of Inbox before the call,
\* the i-th holding the content of the i-th listed file, and the files Inbox
\* held before the call are as they were.
C5_ReceivedFilesDistinct ==
    \A p \in Callers :
        (call[p].op = "receive_from" /\ call[p].outcome = "returned") =>
            LET c == call[p]
                out == c.decrypted_fetched_files
            IN /\ Len(out) = Len(c.listing)
               /\ \A i, j \in DOMAIN out : i # j => out[i] # out[j]
               /\ \A i \in DOMAIN out :
                      /\ DirOf(out[i]) = "Inbox"
                      /\ ~Exists(c.start.fs, out[i])
                      /\ Exists(fs, out[i])
                      /\ ReadFile(fs, out[i]).data = c.start.remote[c.listing[i]]
               /\ \A n \in DOMAIN c.start.fs["Inbox"] :
                      /\ n \in DOMAIN fs["Inbox"]
                      /\ fs["Inbox"][n] = c.start.fs["Inbox"][n]

\* C6 as stated: after a failed download the downloads of the remaining files
\* are still attempted, so that a call that had a failed download ends with
\* no file of its listing left unattempted.
C6_RemainingDownloadsAttempted ==
    \A p \in Callers :
        (GetFailed(p) /\ call[p].pc = "idle") => call[p].file_names = <<>>

\* C6 amended: a failed download ends the call by an exception: the failing
\* file and the files listed after it are not downloaded and stay on the
\* remote, while the files downloaded before it stay in Awaiting (and are
\* gone from the remote); nothing is written to Inbox.
C6_DownloadFailureEndsBatch ==
    \A p \in Callers :
        GetFailed(p) =>
            LET c == call[p]
                S == c.start
                k == Position(c)
            IN /\ c.pc = "idle" /\ c.outcome = "raised"
               /\ \A i \in k..Len(c.listing) :
                      /\ c.listing[i] \in DOMAIN remote
                      /\ remote[c.listing[i]] = S.remote[c.listing[i]]
               /\ Len(c.fetched_files) = k - 1
               /\ \A i \in 1..(k - 1) :
                      /\ c.listing[i] \notin DOMAIN remote
                      /\ DirOf(c.fetched_files[i]) = "Awaiting"
                      /\ Exists(fs, c.fetched_files[i])
                      /\ ~Exists(S.fs, c.fetched_files[i])
                      /\ ReadFile(fs, c.fetched_files[i]).data = S.remote[c.listing[i]]
               /\ DOMAIN fs["Awaiting"] =
                      DOMAIN S.fs["Awaiting"] \cup {basename(c.fetched_files[i]) : i \in 1..(k - 1)}
               /\ \A n \in DOMAIN S.fs["Awaiting"] : fs["Awaiting"][n] = S.fs["Awaiting"][n]
               /\ fs["Inbox"] = S.fs["Inbox"]

C6_Witness ==
    \E p \in Callers :
        /\ GetFailed(p)
        /\ Len(call[p].fetched_files) = 1
        /\ Len(call[p].listing) = 2
        /\ call[p].file_names = <<>>
        /\ Exists(fs, call[p].fetched_files[1])

\* C7: with two send_to calls at once, no content is uploaded twice and no two
\* files of Sent hold the same content.
C7_NoDoubleSend ==
    /\ \A i, j \in DOMAIN puts : i # j => puts[i][2] # puts[j][2]
    /\ \A m, n \in DOMAIN fs["Sent"] : m # n => fs["Sent"][m].data # fs["Sent"][n].data

\* C8: after a send_to whose upload failed no file made for the upload is
\* left: every file of Outbox is a file Outbox held at the start of the call,
\* and after a call on a single file Outbox is what it was at the start.
C8_TransientRemovedOnFailure ==
    \A p \in Callers :
        (call[p].op = "send_to" /\ call[p].error = "put") =>
            LET S == call[p].start.fs
            IN /\ \A n \in DOMAIN fs["Outbox"] :
                      /\ n \in DOMAIN S["Outbox"]
                      /\ fs["Outbox"][n] = S["Outbox"][n]
               /\ Len(call[p].listing) = 1 => fs["Outbox"] = S["Outbox"]

\* C9: _non_conflicting_name gives a path that does not exist: dir/name itself
\* when that does not exist, otherwise the path with _N added for the smallest
\* N >= 1 whose path does not exist.
C9_SmallestFreeSuffix ==
    \A d \in DeriveDirs, n \in DeriveNames \cup {A2} :
        LET file_path == Join(d, n)
            result == non_conflicting_name(fs, d, n)
        IN /\ ~Exists(fs, result)
           /\ ~Exists(fs, file_path) => result = file_path
           /\ Exists(fs, file_path) =>
                  \E N \in 1..(Cardinality(DOMAIN fs[d]) + 1) :
                      /\ result = file_path_try(file_path, N)
                      /\ \A M \in 1..(N - 1) : Exists(fs, file_path_try(file_path, M))

\* a name was derived with the suffix _2, _1 being taken
C9_Witness ==
    \E i \in DOMAIN derived :
        derived[i].path = file_path_try(Join(derived[i].dir, derived[i].name), 2)

\* C10: deriving a path and creating the file, again and again: no derived
\* path existed when it was derived, and the paths derived in one directory
\* (for the same name in particular) are pairwise different.
C10_RepeatedDerivationFresh ==
    /\ \A i \in DOMAIN derived : ~derived[i].existed
    /\ \A i, j \in DOMAIN derived :
           (i < j /\ derived[i].dir = derived[j].dir) => derived[i].path # derived[j].path

\* the same name derived three times in the same directory
C10_Witness ==
    /\ Len(derived) = 3
    /\ \A i \in DOMAIN derived :
           derived[i].dir = derived[1].dir /\ derived[i].name = derived[1].name
    /\ Exists(fs, derived[3].path)

\* a step that issues a remote operation: a put, a remove, a get or a listdir
RemoteOperation(p) ==
    \/ call[p].pc \in {"s_put", "r_list", "r_remove"} /\ call'[p] # call[p]
    \/ Len(call'[p].fetched_files) > Len(call[p].fetched_files)
    \/ call'[p].error = "get" /\ call[p].error # "get"

\* C11: a call that is running has opened exactly one Connection and holds it
\* open; a call that has ended (by return or by any exception raised inside
\* it) has opened exactly one Connection and holds none; a call whose
\* Connection could not be made has opened none; and the remote changes, and
\* remote operations are issued, only in steps of a caller whose Connection is
\* open during the step.
C11_ConnectionScoped ==
    /\ [](\A p \in Callers :
             /\ p \in conn <=> call[p].pc # "idle"
             /\ call[p].pc # "idle" => call[p].opened = 1
             /\ call[p].outcome \in {"raised", "returned"} =>
                    /\ p \notin conn
                    /\ call[p].opened = IF call[p].error = "connect" THEN 0 ELSE 1)
    /\ [][/\ (remote' # remote \/ puts' # puts) => \E p \in Callers : RemoteOperation(p)
          /\ \A p \in Callers : RemoteOperation(p) => p \in conn]_vars

\* an upload failed inside send_to, after an earlier file was uploaded: the
\* call has ended by the exception and its Connection is closed
C11_Witness ==
    \E p \in Callers :
        /\ call[p].op = "send_to" /\ call[p].outcome = "raised" /\ call[p].error = "put"
        /\ Len(puts) > call[p].start.puts
        /\ call[p].opened = 1
        /\ p \notin conn

\* the step is a construction of the SFTP object in a working directory that
\* misses a required directory: one of the required paths is not a directory
\* there (a regular file of that name is not one)
ConstructsWithMissing ==
    /\ sftp.state = "none" /\ sftp'.state # "none"
    /\ ~(required_paths \subseteq DOMAIN fs)

\* C12 as stated: with a required directory missing and the setup not carried
\* out the construction fails: an SFTP object exists only in a working
\* directory that holds the four directories, and every call started in one.
C12_NoObjectWithoutSetup ==
    /\ sftp.state = "constructed" => required_paths \subseteq DOMAIN fs
    /\ \A p \in Callers :
           call[p].op # "none" => required_paths \subseteq DOMAIN call[p].start.fs

\* C13 as stated: any answer other than "y" leaves the working directory as
\* it was.
C13_NotLowerYLeavesUnchanged ==
    [][(ConstructsWithMissing /\ sftp'.response # <<"y">>) =>
           fs' = fs /\ regular' = regular]_vars

\* C13 amended: an answer other than "y" and "Y" leaves the working directory
\* as it was: no directory is created or removed, and the files of every
\* directory are what they were, whether or not the construction then fails
\* for a missing host.
C13_DeclinedLeavesUnchanged ==
    [][(ConstructsWithMissing /\ sftp'.response \notin {<<"y">>, <<"Y">>}) =>
           fs' = fs /\ regular' = regular]_vars

\* the object was constructed on the answer "yes", two directories missing
C13_Witness ==
    /\ sftp.state = "constructed" /\ sftp.prompted
    /\ sftp.response = <<"y", "e", "s">>
    /\ DOMAIN sftp.before = {"Outbox", "Sent"}
    /\ DOMAIN fs = {"Outbox", "Sent"}
    /\ sftp.rechecks = 0

\* C14 as stated: a construction that prompts and is answered "y" leaves the
\* four required directories existing, whichever of them existed before, the
\* existing ones with their files as they were; and a _check_if_setup after
\* such a construction returns True and does not prompt.
C14_SetupCreatesMissing ==
    /\ [][(ConstructsWithMissing /\ sftp'.prompted /\ sftp'.response = <<"y">>) =>
              /\ required_paths \subseteq DOMAIN fs'
              /\ \A d \in DOMAIN fs : fs'[d] = fs[d]]_vars
    /\ [](sftp.prompted /\ sftp.response = <<"y">> =>
              /\ required_paths \subseteq DOMAIN fs
              /\ sftp.rechecks > 0 =>
                     sftp.again.result = "True" /\ ~sftp.again.prompted)

\* C15: a receive_from with cryption_method "PGP" on an object without a PGP
\* object fails before anything is downloaded or removed: it does not return,
\* and during and after it the remote, Awaiting and Inbox are what they were
\* at its start.
C15_MissingPGPFailsFirst ==
    \A p \in Callers :
        (call[p].op = "receive_from" /\ call[p].cryption_method = "PGP" /\ ~pgp) =>
            /\ call[p].outcome # "returned"
            /\ remote = call[p].start.remote
            /\ fs["Awaiting"] = call[p].start.fs["Awaiting"]
            /\ fs["Inbox"] = call[p].start.fs["Inbox"]

\* the places of the "." in a name, and the name with "_N" put in before place k
Dots(name) == {i \in DOMAIN name : name[i] = "."}
InsertAt(name, k, N) ==
    SubSeq(name, 1, k - 1) \o <<"_">> \o Str(N) \o SubSeq(name, k, Len(name))
LastDot(name) ==
    IF Dots(name) = {} THEN Len(name) + 1
    ELSE CHOOSE i \in Dots(name) : \A j \in Dots(name) : j <= i
FirstDot(name) ==
    IF Dots(name) = {} THEN Len(name) + 1
    ELSE CHOOSE i \in Dots(name) : \A j \in Dots(name) : i <= j

\* C16 as stated: on a conflict the derived name is the file name with
\* _<counter> put in before its last "." (a.t.g gives a.t_1.g), or at its end
\* when it has no ".".
C16_SuffixBeforeLastDot ==
    \A d \in DeriveDirs, n \in DeriveNames :
        Exists(fs, Join(d, n)) =>
            \E N \in 1..(Cardinality(DOMAIN fs[d]) + 1) :
                non_conflicting_name(fs, d, n) = Join(d, InsertAt(n, LastDot(n), N))

\* C16 amended: on a conflict the derived name is the file name with
\* _<counter> put in before its first "." (a.t.g gives a_1.t.g), or at its
\* end when it has no "." (R gives R_1); for a name with one "." that is
\* the place before its extension.
C16_SuffixBeforeFirstDot ==
    \A d \in DeriveDirs, n \in DeriveNames :
        Exists(fs, Join(d, n)) =>
            \E N \in 1..(Cardinality(DOMAIN fs[d]) + 1) :
                non_conflicting_name(fs, d, n) = Join(d, InsertAt(n, FirstDot(n), N))

\* a name with two dots and a name with no dot were derived on a conflict
C16_Witness ==
    /\ \E i \in DOMAIN derived :
           /\ derived[i].name = ATG
           /\ derived[i].path = Join(derived[i].dir, <<"a", "_", "1", ".", "t", ".", "g">>)
    /\ \E i \in DOMAIN derived :
           /\ derived[i].name = README
           /\ derived[i].path = Join(derived[i].dir, <<"R", "_", "1">>)

\* the content holds the line that begins a PGP message
Armored(c) == \E i \in DOMAIN c : c[i] = Line(message_beginning_indicator)

\* C17: a receive_from with cryption_method "PGP" that returns has written to
\* Inbox, for every listed file, the decrypted content when the remote file
\* held the line beginning a PGP message, and the raw content only when it
\* did not (for the paths that no other file of the batch was written to).
C17_ArmoredFilesDecrypted ==
    \A p \in Callers :
        (/\ call[p].op = "receive_from" /\ call[p].cryption_method = "PGP"
         /\ call[p].outcome = "returned") =>
            LET c == call[p]
                out == c.decrypted_fetched_files
            IN \A i \in DOMAIN out :
                   (\A j \in DOMAIN out : j # i => out[j] # out[i]) =>
                       LET content == c.start.remote[c.listing[i]]
                       IN /\ Exists(fs, out[i])
                          /\ ReadFile(fs, out[i]).data =
                                 IF Armored(content) THEN GPGDecrypt(content) ELSE content

====
